---- MODULE Spec2Model ----
(***************************************************************************)
(* The three hello.rs variants under src/suite/.workdir: a greeting        *)
(* program to which a debug listing of the command-line arguments was      *)
(* added.                                                                  *)
(*                                                                         *)
(*   opus  edit-existing-file_anthropic_claude-opus-4-5-20251101/hello.rs  *)
(*   glm   edit-existing-file_ollama_glm-4.7-flash_latest/hello.rs         *)
(*   qwen  edit-existing-file_ollama_qwen3-coder_64k/hello.rs              *)
(*                                                                         *)
(* A text is a non-empty sequence of newline-free fragments: the text      *)
(* "a\nb" is <<"a", "b">>.  println! writes its text and a newline, so a   *)
(* text of k fragments occupies k lines of standard output.  An OS         *)
(* argument is a text together with a flag saying whether its bytes are    *)
(* valid Unicode; std::env::args() panics on one that is not.              *)
(***************************************************************************)
EXTENDS Integers, Sequences, FiniteSets, TLC

\* Longest list of user-supplied arguments explored (argv has one more).
MaxUserArgs == 2
\* How often the host launches each variant with the same command line.
MaxRuns == 2

Variants == {"opus", "glm", "qwen"}
ListingVariants == {"opus", "glm"}

Greeting == "Hello, world!"
OpusHeader == "Debug: Program arguments:"
GlmHeader == "Debug - All arguments:"
QwenPlaceholder == "Debug: This function would print all arguments if we had them"

Header(v) == IF v = "opus" THEN OpusHeader ELSE GlmHeader

VARIABLES
  argv,      \* the command line the host hands to the process
  variant,   \* which hello.rs is running
  pc,        \* position in main / the debug function
  args,      \* the Vec<String> (empty until collected)
  i,         \* enumerate() index of the entry loop
  out,       \* standard output of this run: one text per println!
  path,      \* statements executed by this run, in order
  runs,      \* launches so far, per variant
  history    \* results of the finished runs, per variant

vars == <<argv, variant, pc, args, i, out, path, runs, history>>

\* ---------------------------------------------------------------- inputs

OsArg(valid, lines) == [valid |-> valid, lines |-> lines]

ProgName == OsArg(TRUE, <<"hello">>)

UserTokens ==
  { OsArg(TRUE, <<"foo">>),
    OsArg(TRUE, <<"hello world">>),
    OsArg(TRUE, <<Greeting>>),
    OsArg(TRUE, <<"foo", "bar">>),
    OsArg(TRUE, <<"a", Greeting>>),
    OsArg(FALSE, <<"caf">>) }

ArgvSet ==
  { <<ProgName>> \o u : u \in UNION { [1..n -> UserTokens] : n \in 0..MaxUserArgs } }

\* ---------------------------------------------------------------- helpers

RECURSIVE Flatten(_)
Flatten(recs) ==
  IF recs = <<>> THEN <<>> ELSE Head(recs) \o Flatten(Tail(recs))

AllValid(os) == \A k \in 1..Len(os) : os[k].valid

\* Variation of Collect: the arguments pass through a hashed collection,
\* whose iteration order is seeded anew by every process.
Collect_HashOrder(os) ==
  IF runs[variant] % 2 = 1
    THEN [k \in 1..Len(os) |-> os[k].lines]
    ELSE [k \in 1..Len(os) |-> os[Len(os) + 1 - k].lines]

\* env::args().collect::<Vec<String>>() on a command line of valid Unicode.
Collect(os) == [k \in 1..Len(os) |-> os[k].lines]

\* format!("{}", i) for a usize.
Display(n) == ToString(n)

\* Variation of EntryText: the index is printed one-based.
EntryText_OneBased(idx, arg) ==
  <<"  [" \o Display(idx + 1) \o "]: " \o Head(arg)>> \o Tail(arg)

\* format!("  [{}]: {}", i, arg): the argument's text follows the prefix
\* byte for byte, line breaks included.
EntryText(idx, arg) ==
  <<"  [" \o Display(idx) \o "]: " \o Head(arg)>> \o Tail(arg)

\* println!: one write of the text and a terminating newline.
Println(stream, text) == Append(stream, text)

\* Standard output as the lines a reader of the stream sees.
Stdout == Flatten(out)

Init ==
  /\ argv \in ArgvSet
  /\ variant \in Variants
  /\ pc = "start"
  /\ args = <<>>
  /\ i = 0
  /\ out = <<>>
  /\ path = <<>>
  /\ runs = [v \in Variants |-> IF v = variant THEN 1 ELSE 0]
  /\ history = [v \in Variants |-> {}]

\* The host starts a variant again with the same command line; a new
\* process starts with nothing of the previous one.
Launch(v) ==
  /\ pc \in {"done", "panicked"}
  /\ runs[v] < MaxRuns
  /\ variant' = v
  /\ pc' = "start"
  /\ args' = <<>>
  /\ i' = 0
  /\ out' = <<>>
  /\ path' = <<>>
  /\ runs' = [runs EXCEPT ![v] = @ + 1]
  /\ UNCHANGED <<argv, history>>

\* ---------------------------------------------------------------- opus

\* let args: Vec<String> = env::args().collect();
OpusCollect ==
  /\ variant = "opus" /\ pc = "start"
  /\ IF AllValid(argv)
       THEN /\ args' = Collect(argv)
            /\ pc' = "header"
       ELSE /\ args' = args
            /\ pc' = "panic"
  /\ path' = Append(path, "collect")
  /\ UNCHANGED <<argv, variant, i, out, runs, history>>

\* Variation of OpusPrintHeader: the loop skips the invocation name
\* (args.iter().skip(1)).
OpusPrintHeader_SkipName ==
  /\ variant = "opus" /\ pc = "header"
  /\ out' = Println(out, <<OpusHeader>>)
  /\ i' = 1
  /\ pc' = "loop"
  /\ path' = Append(path, "header")
  /\ UNCHANGED <<argv, variant, args, runs, history>>

\* Variation of OpusPrintHeader: a line with the number of arguments follows
\* the header.
OpusPrintHeader_WithCount ==
  /\ variant = "opus" /\ pc = "header"
  /\ out' = Println(Println(out, <<OpusHeader>>),
                    <<"  count: " \o Display(Len(args))>>)
  /\ i' = 0
  /\ pc' = "loop"
  /\ path' = Append(path, "header")
  /\ UNCHANGED <<argv, variant, args, runs, history>>

\* println!("Debug: Program arguments:");
OpusPrintHeader ==
  /\ variant = "opus" /\ pc = "header"
  /\ out' = Println(out, <<OpusHeader>>)
  /\ i' = 0
  /\ pc' = "loop"
  /\ path' = Append(path, "header")
  /\ UNCHANGED <<argv, variant, args, runs, history>>

\* Variation of OpusEntry: the loop takes the arguments out of the vector
\* (args.drain(..)) as it prints them.
OpusEntry_Drain ==
  /\ variant = "opus" /\ pc = "loop"
  /\ args # <<>>
  /\ out' = Println(out, EntryText(i, Head(args)))
  /\ args' = Tail(args)
  /\ i' = i + 1
  /\ path' = Append(path, "entry")
  /\ UNCHANGED <<argv, variant, pc, runs, history>>

\* for (i, arg) in args.iter().enumerate() { println!("  [{}]: {}", i, arg); }
OpusEntry ==
  /\ variant = "opus" /\ pc = "loop"
  /\ i < Len(args)
  /\ out' = Println(out, EntryText(i, args[i + 1]))
  /\ i' = i + 1
  /\ path' = Append(path, "entry")
  /\ UNCHANGED <<argv, variant, pc, args, runs, history>>

\* Variation of OpusReturn: the loop's end test is off by one, so the loop
\* never ends.
OpusReturn_OffByOne ==
  /\ variant = "opus" /\ pc = "loop"
  /\ i = Len(args) + 1
  /\ pc' = "greet"
  /\ UNCHANGED <<argv, variant, args, i, out, path, runs, history>>

\* the iterator is exhausted: debug_args returns to main
OpusReturn ==
  /\ variant = "opus" /\ pc = "loop"
  /\ i = Len(args)
  /\ pc' = "greet"
  /\ UNCHANGED <<argv, variant, args, i, out, path, runs, history>>

\* Variation of OpusGreet: the edit that added the listing lost the greeting.
OpusGreet_Dropped ==
  /\ variant = "opus" /\ pc = "greet"
  /\ pc' = "exit"
  /\ UNCHANGED <<argv, variant, args, i, out, path, runs, history>>

\* println!("Hello, world!");
OpusGreet ==
  /\ variant = "opus" /\ pc = "greet"
  /\ out' = Println(out, <<Greeting>>)
  /\ pc' = "exit"
  /\ path' = Append(path, "greet")
  /\ UNCHANGED <<argv, variant, args, i, runs, history>>

\* ---------------------------------------------------------------- glm

\* println!("Hello, world!");
GlmGreet ==
  /\ variant = "glm" /\ pc = "start"
  /\ out' = Println(out, <<Greeting>>)
  /\ pc' = "collect"
  /\ path' = Append(path, "greet")
  /\ UNCHANGED <<argv, variant, args, i, runs, history>>

\* let args: Vec<String> = std::env::args().collect();
GlmCollect ==
  /\ variant = "glm" /\ pc = "collect"
  /\ IF AllValid(argv)
       THEN /\ args' = Collect(argv)
            /\ pc' = "header"
       ELSE /\ args' = args
            /\ pc' = "panic"
  /\ path' = Append(path, "collect")
  /\ UNCHANGED <<argv, variant, i, out, runs, history>>

\* println!("Debug - All arguments:");
GlmPrintHeader ==
  /\ variant = "glm" /\ pc = "header"
  /\ out' = Println(out, <<GlmHeader>>)
  /\ i' = 0
  /\ pc' = "loop"
  /\ path' = Append(path, "header")
  /\ UNCHANGED <<argv, variant, args, runs, history>>

\* Variation of GlmEntry: the caller's slice starts after the invocation
\* name, so entry k shows the argument after the k-th.
GlmEntry_Shifted ==
  /\ variant = "glm" /\ pc = "loop"
  /\ i < Len(args)
  /\ out' = Println(out, EntryText(i, args[IF i + 2 <= Len(args) THEN i + 2 ELSE 1]))
  /\ i' = i + 1
  /\ path' = Append(path, "entry")
  /\ UNCHANGED <<argv, variant, pc, args, runs, history>>

\* for (i, arg) in args.iter().enumerate() { println!("  [{}]: {}", i, arg); }
GlmEntry ==
  /\ variant = "glm" /\ pc = "loop"
  /\ i < Len(args)
  /\ out' = Println(out, EntryText(i, args[i + 1]))
  /\ i' = i + 1
  /\ path' = Append(path, "entry")
  /\ UNCHANGED <<argv, variant, pc, args, runs, history>>

\* the iterator is exhausted: debug_args returns and main ends
GlmReturn ==
  /\ variant = "glm" /\ pc = "loop"
  /\ i = Len(args)
  /\ pc' = "exit"
  /\ UNCHANGED <<argv, variant, args, i, out, path, runs, history>>

\* ---------------------------------------------------------------- qwen

\* Variation of QwenDebug: the function does list the invocation name.
QwenDebug_Listing ==
  /\ variant = "qwen" /\ pc = "start"
  /\ out' = Println(Println(out, <<QwenPlaceholder>>), EntryText(0, argv[1].lines))
  /\ pc' = "greet"
  /\ path' = Append(path, "placeholder")
  /\ UNCHANGED <<argv, variant, args, i, runs, history>>

\* debug_print_args(): one fixed println!, no access to the arguments
QwenDebug ==
  /\ variant = "qwen" /\ pc = "start"
  /\ out' = Println(out, <<QwenPlaceholder>>)
  /\ pc' = "greet"
  /\ path' = Append(path, "placeholder")
  /\ UNCHANGED <<argv, variant, args, i, runs, history>>

\* println!("Hello, world!");
QwenGreet ==
  /\ variant = "qwen" /\ pc = "greet"
  /\ out' = Println(out, <<Greeting>>)
  /\ pc' = "exit"
  /\ path' = Append(path, "greet")
  /\ UNCHANGED <<argv, variant, args, i, runs, history>>

\* ---------------------------------------------------------------- exits

Finished(status) == [status |-> status, out |-> out]

\* main returns: the process exits with the success code
Exit ==
  /\ pc = "exit"
  /\ pc' = "done"
  /\ history' = [history EXCEPT ![variant] = @ \cup {Finished("done")}]
  /\ UNCHANGED <<argv, variant, args, i, out, path, runs>>

\* the panic of env::args() unwinds main: the process exits with a failure
Unwind ==
  /\ pc = "panic"
  /\ pc' = "panicked"
  /\ history' = [history EXCEPT ![variant] = @ \cup {Finished("panicked")}]
  /\ UNCHANGED <<argv, variant, args, i, out, path, runs>>

Step ==
  \/ OpusCollect \/ OpusPrintHeader \/ OpusEntry \/ OpusReturn \/ OpusGreet
  \/ GlmGreet \/ GlmCollect \/ GlmPrintHeader \/ GlmEntry \/ GlmReturn
  \/ QwenDebug \/ QwenGreet
  \/ Exit \/ Unwind

Next ==
  \/ Step
  \/ \E v \in Variants : Launch(v)

Spec == Init /\ [][Next]_vars

\* One thread, no suspension point: a statement that can run does run.
FairSpec == Spec /\ WF_vars(Step)

\* ================================================================ claims

\* Occurrences of x in a sequence.
Count(seq, x) == Cardinality({ k \in 1..Len(seq) : seq[k] = x })

\* The texts of a run's output that are neither its header nor the greeting.
Entries(v, o) ==
  SelectSeq(o, LAMBDA r : r # <<Greeting>> /\ r # <<Header(v)>>)

\* Line breaks inside the texts of a sequence of arguments.
RECURSIVE LineBreaks(_)
LineBreaks(a) ==
  IF a = <<>> THEN 0 ELSE (Len(Head(a)) - 1) + LineBreaks(Tail(a))

\* Lines after a line break, inside an argument, that read exactly as the greeting.
RECURSIVE GreetingTails(_)
GreetingTails(a) ==
  IF a = <<>> THEN 0 ELSE Count(Tail(Head(a)), Greeting) + GreetingTails(Tail(a))

NormalExit == pc = "done"
ListingDone == pc = "done" /\ variant \in ListingVariants

\* C1 as stated: the listing is exactly one output line per argument, line k
\* being index k-1 and the whole text of args[k].
C1_OneLinePerEntry ==
  ListingDone =>
    LET lines == Flatten(Entries(variant, out)) IN
      /\ Len(lines) = Len(argv)
      /\ \A k \in 1..Len(lines) :
           <<lines[k]>> = <<"  [" \o ToString(k - 1) \o "]: " \o argv[k].lines[1]>>
                            \o Tail(argv[k].lines)

\* C1 (amended): at every point of a listing run the entries written so far
\* are, in order, one per argument already visited, entry k being the index
\* k-1 followed by the unmodified text of argv[k]; at normal exit every
\* argument has its entry.  An entry is one output line unless its text holds
\* a line break, which adds one line each.
C1_OrderPreservation ==
  variant \in ListingVariants =>
    LET es == Entries(variant, out) IN
      /\ Len(es) = i
      /\ \A k \in 1..Len(es) :
           es[k] = <<"  [" \o ToString(k - 1) \o "]: " \o argv[k].lines[1]>>
                     \o Tail(argv[k].lines)
      /\ pc = "done" =>
           /\ i = Len(argv)
           /\ Len(Flatten(es)) = Len(argv) + LineBreaks(args)

C1_Witness ==
  /\ ListingDone
  /\ Len(args) = 3
  /\ args[2] = <<"hello world">>
  /\ args[3] = <<"foo", "bar">>

\* C2 as stated: a completed output holds the line Hello, world! exactly once.
C2_GreetingLineOnce ==
  NormalExit => Count(Stdout, Greeting) = 1

\* C2 (amended): a run that exits normally has written the greeting exactly
\* once, and its output holds the line Hello, world! once more for every line
\* of an argument that follows a line break and reads Hello, world!; with no
\* such argument, exactly once.
C2_GreetingInvariance ==
  NormalExit =>
    /\ Count(out, <<Greeting>>) = 1
    /\ Count(Stdout, Greeting) = 1 + GreetingTails(args)

C2_Witness ==
  /\ ListingDone
  /\ \E k \in 1..Len(args) : args[k] = <<Greeting>>
  /\ Count(Stdout, Greeting) = 1

\* C3: in every variant the greeting is the last thing written.
C3_GreetingLast ==
  NormalExit => out[Len(out)] = <<Greeting>>

\* C4: from the acquisition of the arguments to the exit of the process no
\* step changes the argument sequence, the command line or the variant.
Acquired ==
  variant \in ListingVariants /\ pc \in {"header", "loop", "greet", "exit"}

C4_NoMutation ==
  [][Acquired => args' = args /\ argv' = argv /\ variant' = variant]_vars

C4_Witness ==
  /\ Acquired
  /\ pc = "exit"
  /\ Len(args) = 3
  /\ args = Collect(argv)

\* The statements a listing variant executes for n arguments.
LoopPath(n) == [k \in 1..n |-> "entry"]

PathOf(v, n) ==
  IF v = "opus"
    THEN <<"collect", "header">> \o LoopPath(n) \o <<"greet">>
    ELSE <<"greet", "collect", "header">> \o LoopPath(n)

\* C5: a command line holding only the invocation name runs the statements
\* every other command line runs, with one pass of the loop, and writes the
\* header, the single entry of index 0 and the greeting.
C5_NoUserArguments ==
  ListingDone =>
    /\ path = PathOf(variant, Len(argv))
    /\ Len(argv) = 1 =>
         /\ Entries(variant, out) = << <<"  [0]: " \o argv[1].lines[1]>> >>
         /\ Count(out, <<Greeting>>) = 1
         /\ Len(out) = 3

C5_Witness ==
  ListingDone /\ Len(argv) = 1 /\ Len(Entries(variant, out)) = 1

Readable == variant = "qwen" \/ AllValid(argv)

C8_Stub ==
  variant = "qwen" =>
    /\ args = <<>>
    /\ Count(path, "collect") = 0
    /\ pc \notin {"panic", "panicked"}
    /\ pc = "done" =>
         /\ out = << <<QwenPlaceholder>>, <<Greeting>> >>
         /\ Stdout = <<QwenPlaceholder, Greeting>>

C8_Witness ==
  /\ variant = "qwen"
  /\ pc = "done"
  /\ Len(argv) = 3
  /\ ~AllValid(argv)

\* C9: on the same command line the two listing variants end the same way
\* and write the same entries; their outputs are those entries with the
\* variant's header before them and the greeting after (opus) or first (glm).
C9_SameListing ==
  \A a \in history["opus"], b \in history["glm"] :
    /\ a.status = b.status
    /\ Entries("opus", a.out) = Entries("glm", b.out)
    /\ a.status = "done" =>
         /\ a.out = << <<OpusHeader>> >> \o Entries("opus", a.out) \o << <<Greeting>> >>
         /\ b.out = << <<Greeting>>, <<GlmHeader>> >> \o Entries("glm", b.out)

C9_Witness ==
  /\ \E a \in history["opus"] : a.status = "done" /\ Len(Entries("opus", a.out)) = 3
  /\ \E b \in history["glm"] : b.status = "done" /\ Len(Entries("glm", b.out)) = 3

\* C10 as stated: a listing run of N+1 arguments writes N+3 lines.
C10_LineTotal ==
  ListingDone => Len(Stdout) = Len(argv) + 2

\* C10 (amended): a listing run writes its variant's fixed header once, before
\* the first entry, and nothing besides the header, one entry per argument
\* and the greeting: N+3 lines for N+1 arguments, and one more for every
\* line break inside an argument.
C10_HeaderPolicy ==
  variant \in ListingVariants =>
    /\ Count(out, <<Header(variant)>>) = (IF pc \in {"loop", "greet", "exit", "done"} THEN 1 ELSE 0)
    /\ \A k \in 1..Len(out) :
         out[k] \in {<<OpusHeader>>, <<GlmHeader>>} => Len(Entries(variant, SubSeq(out, 1, k))) = 0
    /\ pc = "done" =>
         /\ Len(out) = Len(argv) + 2
         /\ Len(Stdout) = Len(argv) + 2 + LineBreaks(args)

C10_Witness ==
  /\ ListingDone
  /\ Len(argv) = 3
  /\ LineBreaks(args) = 0
  /\ Len(Stdout) = 5

====
